---- MODULE Spec2Model ----
(***************************************************************************)
(* Model of the execution harness of the Puffing Language API              *)
(* (backend/services.py): PuffingExecutor.execute, the time_limit context  *)
(* manager and the SIGALRM timeout handler, run by a main thread and       *)
(* worker threads that share the process-wide sys.stdout.                  *)
(*                                                                         *)
(* Text is a sequence of chunks; an Optional value is a set with at most   *)
(* one element (None is the empty set).                                    *)
(***************************************************************************)
EXTENDS Integers, Sequences, FiniteSets, TLC

\* ------------------------------------------------------------------ bounds
\* execute calls made in one behaviour (also the number of StringIO objects).
MaxCalls == 2
\* Writes of the printing program.
MaxWrites == 2

\* ------------------------------------------------------- program constants
\* models.py 16: timeout = Field(5, ge=1, le=30); the least timeout a
\* request may carry.
MinTimeout == 1

\* The process's main thread, which alone may install signal handlers and in
\* which they run, and one other thread calling execute.
MainThread == "main"
Threads == {MainThread, "worker"}
\* The stream that is sys.stdout when the process starts; StringIO objects
\* are numbered from 1 in order of creation.
OrigStdout == 0
Streams == 0..MaxCalls

\* The timeouts execute is called with: one of the validated range and one
\* outside it (execute itself does not validate).
Timeouts == {0, MinTimeout}

None == {}
Some(x) == {x}

\* --------------------------------------------------------------- exceptions
\* kind is the place of the class in the except chain of execute:
\*   "timeout"   TimeoutException (an Exception)
\*   "puffing"   PuffingError and its subclasses (Exceptions)
\*   "exception" any other Exception
NoExc == [kind |-> "none", cls |-> "", msg |-> ""]

\* services.py 26-33: timeout_handler raises TimeoutException(...).
timeout_handler == [kind |-> "timeout", cls |-> "TimeoutException",
                    msg |-> "Code execution timed out"]

\* signal.signal called off the main thread (services.py 41).
SignalValueError == [kind |-> "exception", cls |-> "ValueError",
                     msg |-> "signal only works in main thread of the main interpreter"]

\* ------------------------------------------------- the interpreter pipeline
\* Lexer, Parser and Interpreter are collaborators outside services.py; a
\* source is modelled by what each stage does with it: "ok", an exception,
\* or (run only) "loop", a run that never finishes.  writes is the number of
\* chunks run writes to sys.stdout before it ends.
Ok   == [kind |-> "ok", cls |-> "", msg |-> ""]
Loop == [kind |-> "loop", cls |-> "", msg |-> ""]
Puffing(c, m) == [kind |-> "puffing", cls |-> c, msg |-> m]
Fault(c, m)   == [kind |-> "exception", cls |-> c, msg |-> m]

Sources == {"print", "noop", "badlex", "badparse", "badrun", "crash", "lexcrash", "loop"}

Program(src) ==
  CASE src = "print"    -> [tokenize |-> Ok, parse |-> Ok, writes |-> MaxWrites, run |-> Ok]
    [] src = "noop"     -> [tokenize |-> Ok, parse |-> Ok, writes |-> 0, run |-> Ok]
    [] src = "badlex"   -> [tokenize |-> Puffing("LexerError", "Unterminated string"),
                            parse |-> Ok, writes |-> 0, run |-> Ok]
    [] src = "badparse" -> [tokenize |-> Ok, parse |-> Puffing("ParserError", "Expected ';'"),
                            writes |-> 0, run |-> Ok]
    [] src = "badrun"   -> [tokenize |-> Ok, parse |-> Ok, writes |-> 1,
                            run |-> Puffing("RuntimeError", "Undefined variable")]
    [] src = "crash"    -> [tokenize |-> Ok, parse |-> Ok, writes |-> 1,
                            run |-> Fault("ZeroDivisionError", "division by zero")]
    [] src = "lexcrash" -> [tokenize |-> Fault("TypeError", "bad operand"),
                            parse |-> Ok, writes |-> 0, run |-> Ok]
    [] src = "loop"     -> [tokenize |-> Ok, parse |-> Ok, writes |-> 1, run |-> Loop]

\* The calls of execute followed, as <<code, timeout>>: every source under a
\* timeout of the validated range, and under one outside it a program that
\* ends and one that loops.
Calls ==
  (Sources \X {MinTimeout}) \cup ({"print", "loop"} \X (Timeouts \ {MinTimeout}))

\* A chunk of text is <<text, thread, index>>: the k-th write of the program
\* run by thread t is a marker no other write equals.
Marker(t, k) == <<"marker", t, k>>
\* services.py 124: the text substituted for an empty output.
Placeholder == << <<"Program executed successfully!", 0, 0>> >>

\* --------------------------------------------------------------- the state
VARIABLES
  platform,        \* sys.platform: "unix" or "win32"
  sys_stdout,      \* the process-wide output target (a stream)
  contents,        \* the text each stream holds
  alarm,           \* the pending SIGALRM: "off" or "armed"
  handler,         \* the installed SIGALRM handler
  ncalls,          \* execute calls started (and StringIO objects created)
  pc,              \* each thread's position in execute
  code,            \* execute's argument code
  timeout,         \* execute's argument timeout
  old_stdout,      \* execute's local old_stdout
  captured_output, \* execute's local captured_output
  exc,             \* the exception in flight in the thread
  result,          \* the dict execute returns (None until built)
  spin,            \* the looping program's state: it alternates for ever
  written,         \* history: the chunks this call's program wrote
  alone,           \* history: no other call was active during this call
  fired,           \* history: the deadline fired during this call
  thrown,          \* history: what the pipeline or time_limit raised
  after,           \* history: sys.stdout when the call returned
  overlapped,      \* history: two calls were ever active at once
  stray,           \* history: the handler ran outside every timed region
  events,          \* history: the order of this call's clock and sink events
  validations,     \* the last two validate_syntax calls: source and outcome
  response         \* the last response of the /execute handler

vars == <<platform, sys_stdout, contents, alarm, handler, ncalls, pc, code,
          timeout, old_stdout, captured_output, exc, result, spin, written, alone,
          fired, thrown, after, overlapped, stray, events, validations,
          response>>

globals == <<platform, sys_stdout, contents, alarm, handler, ncalls>>
args    == <<code, timeout>>
locals  == <<old_stdout, captured_output, exc, result>>
history == <<written, alone, fired, thrown, after, overlapped, stray>>
\* What execute neither reads nor writes.
outside == <<validations, response>>

Active(t) == pc[t] \notin {"idle", "done", "raised"}
\* The positions between signal.alarm(seconds) and signal.alarm(0).
TimedRegion == {"tokenize", "parse", "run", "getvalue", "exit"}

Init ==
  /\ platform \in {"unix", "win32"}
  /\ sys_stdout = OrigStdout
  /\ contents = [s \in Streams |-> <<>>]
  /\ alarm = "off"
  /\ handler = "SIG_DFL"
  /\ ncalls = 0
  /\ pc = [t \in Threads |-> "idle"]
  /\ code = [t \in Threads |-> "noop"]
  /\ timeout = [t \in Threads |-> MinTimeout]
  /\ old_stdout = [t \in Threads |-> OrigStdout]
  /\ captured_output = [t \in Threads |-> OrigStdout]
  /\ exc = [t \in Threads |-> NoExc]
  /\ result = [t \in Threads |-> None]
  /\ spin = [t \in Threads |-> FALSE]
  /\ written = [t \in Threads |-> <<>>]
  /\ alone = [t \in Threads |-> TRUE]
  /\ fired = [t \in Threads |-> FALSE]
  /\ thrown = [t \in Threads |-> NoExc]
  /\ after = [t \in Threads |-> OrigStdout]
  /\ overlapped = FALSE
  /\ stray = FALSE
  /\ events = [t \in Threads |-> <<>>]
  /\ validations = <<>>
  /\ response = None

\* ------------------------------------------------------- the result records
\* Variant of SuccessResult: the captured text is returned as it is, with no
\* placeholder for an empty output.
SuccessResult_NoPlaceholder(output) ==
  [success |-> TRUE, output |-> Some(output),
   error |-> None, error_type |-> None, traceback |-> None,
   execution_time |-> Some("elapsed")]

\* services.py 122-129.
SuccessResult(output) ==
  [success |-> TRUE,
   output |-> Some(IF output = <<>> THEN Placeholder ELSE output),
   error |-> None, error_type |-> None, traceback |-> None,
   execution_time |-> Some("elapsed")]

\* services.py 149, 160: traceback.format_exc() for the exception handled.
Traceback(e) == <<"Traceback (most recent call last):", e.cls, e.msg>>

\* services.py 133-162: the shape of the three failure dicts.
Failure(msg, kind, tb) ==
  [success |-> FALSE, output |-> None, error |-> Some(msg),
   error_type |-> Some(kind), traceback |-> tb,
   execution_time |-> Some("elapsed")]

\* Variant of ExceptClause: no catch-all clause, so an exception that is
\* neither a timeout nor a PuffingError leaves execute.
ExceptClause_NoCatchAll(e, seconds) ==
  CASE e.kind = "timeout" ->
         Some(Failure(<<"Execution timed out after ", ToString(seconds), " seconds">>,
                      "TimeoutError", None))
    [] e.kind = "puffing" ->
         Some(Failure(<<e.msg>>, e.cls, Some(Traceback(e))))
    [] OTHER -> None

\* Variant of ExceptClause: the timeout dict keeps an output entry.
ExceptClause_TimeoutOutput(e, seconds) ==
  CASE e.kind = "timeout" ->
         Some([Failure(<<"Execution timed out after ", ToString(seconds), " seconds">>,
                       "TimeoutError", None) EXCEPT !.output = Some(<<>>)])
    [] e.kind = "puffing" ->
         Some(Failure(<<e.msg>>, e.cls, Some(Traceback(e))))
    [] e.kind = "exception" ->
         Some(Failure(<<"Unexpected error: ", e.msg>>, e.cls, Some(Traceback(e))))
    [] OTHER -> None

\* Variant of ExceptClause: the catch-all clause comes before the
\* PuffingError clause, so it takes the language errors too.
ExceptClause_CatchAllFirst(e, seconds) ==
  CASE e.kind = "timeout" ->
         Some(Failure(<<"Execution timed out after ", ToString(seconds), " seconds">>,
                      "TimeoutError", None))
    [] e.kind \in {"puffing", "exception"} ->
         Some(Failure(<<"Unexpected error: ", e.msg>>, e.cls, Some(Traceback(e))))
    [] OTHER -> None

\* Variant of ExceptClause: the catch-all clause reports a PuffingError's
\* way, the message with no prefix.
ExceptClause_NoPrefix(e, seconds) ==
  CASE e.kind = "timeout" ->
         Some(Failure(<<"Execution timed out after ", ToString(seconds), " seconds">>,
                      "TimeoutError", None))
    [] e.kind \in {"puffing", "exception"} ->
         Some(Failure(<<e.msg>>, e.cls, Some(Traceback(e))))
    [] OTHER -> None

\* services.py 131-162: the except chain; None when no clause matches and
\* the exception leaves execute.
ExceptClause(e, seconds) ==
  CASE e.kind = "timeout" ->
         Some(Failure(<<"Execution timed out after ", ToString(seconds), " seconds">>,
                      "TimeoutError", None))
    [] e.kind = "puffing" ->
         Some(Failure(<<e.msg>>, e.cls, Some(Traceback(e))))
    [] e.kind = "exception" ->
         Some(Failure(<<"Unexpected error: ", e.msg>>, e.cls, Some(Traceback(e))))
    [] OTHER -> None

\* Variant of RestoredStdout: sys.stdout is put back at the end of the try
\* body only, so a call that fails leaves it as it is.
RestoredStdout_OnSuccessOnly(t) ==
  IF \E r \in result[t] : r.success THEN old_stdout[t] ELSE sys_stdout

\* services.py 164-166: the stream the finally clause makes sys.stdout.
RestoredStdout(t) == old_stdout[t]

\* Variant of Disarmed: the generator has no finally, so leaving the with
\* body leaves the alarm as it is.
Disarmed_NoFinally == alarm

\* services.py 45-46: what signal.alarm(0) leaves pending.
Disarmed == "off"

\* Variant of MayInstallHandler: signal.signal succeeds in every thread.
MayInstallHandler_AnyThread(t) == TRUE

\* services.py 41: signal.signal raises ValueError unless it is called in
\* the main thread.
MayInstallHandler(t) == t = MainThread

\* Variant of RaisedOver: an exception already in flight is kept when the
\* handler raises.
RaisedOver_KeepFirst(e) == IF e = NoExc THEN timeout_handler ELSE e

\* services.py 31-33: the exception in flight after the handler has raised
\* while e was in flight: the TimeoutException takes its place.
RaisedOver(e) == timeout_handler

\* services.py 120, 132, 143, 154: execution_time = time.time() - start_time
\* is evaluated inside the try body or the except clause.
Sampled(log) == Append(log, "sample")

\* Variant of Released: the elapsed time is taken after sys.stdout is put
\* back.
Released_ThenSampled(log) == Append(Append(log, "release"), "sample")

\* services.py 164-166: the finally clause puts sys.stdout back.
Released(log) == Append(log, "release")

\* services.py 39-42: what signal.alarm(seconds) leaves pending
\* (alarm(0) cancels and arms nothing).
ArmedBy(seconds) == IF seconds > 0 THEN "armed" ELSE "off"

\* services.py 43-50: where control goes when the with body is left: on the
\* SIGALRM branch through the generator's finally, on win32 straight out.
LeaveBody(raising) ==
  IF platform = "unix" THEN "exit"
  ELSE IF raising THEN "except" ELSE "restore"

\* ---------------------------------------------------------- validate_syntax
\* The tokens Lexer(code).tokenize() returns for a source it accepts: objects
\* with a type (a member of the lexer's token enumeration) and a value.
Token(name, value) == [type |-> <<"TokenType", name>>, value |-> value]

LexerTokens(src) ==
  CASE src = "noop"     -> <<Token("EOF", "")>>
    [] src = "badparse" -> <<Token("PRINT", "print"), Token("EOF", "")>>
    [] src = "loop"     -> <<Token("WHILE", "while"), Token("TRUE", "true"),
                             Token("EOF", "")>>
    [] OTHER            -> <<Token("PRINT", "print"), Token("STRING", "hi"),
                             Token("SEMICOLON", ";"), Token("EOF", "")>>

\* services.py 74: str(token.type), the text of an enumeration member.
Str(type) == <<type[1], ".", type[2]>>

\* Variant of TokenList: the list is built from the last token to the first.
TokenList_Reversed(tokens) ==
  [i \in 1..Len(tokens) |->
     [type |-> Str(tokens[Len(tokens) + 1 - i].type),
      value |-> tokens[Len(tokens) + 1 - i].value]]

\* services.py 73-76: the comprehension over tokens, one dict per token.
TokenList(tokens) ==
  [i \in 1..Len(tokens) |-> [type |-> Str(tokens[i].type), value |-> tokens[i].value]]

\* services.py 57-84: validate_syntax(code).  The value is what the caller
\* gets: Some(triple) when the function returns, None when an exception
\* leaves it.
Triple(valid, error, tokens) == [valid |-> valid, error |-> error, tokens |-> tokens]

ValidateClause(e) ==
  CASE e.kind = "puffing"   -> Some(Triple(FALSE, Some(<<e.msg>>), None))
    [] e.kind = "exception" -> Some(Triple(FALSE, Some(<<"Unexpected error: ", e.msg>>), None))
    [] OTHER                -> None

validate_syntax(src) ==
  LET p == Program(src) IN
    IF p.tokenize.kind # "ok" THEN ValidateClause(p.tokenize)
    ELSE IF p.parse.kind # "ok" THEN ValidateClause(p.parse)
    ELSE Some(Triple(TRUE, None, Some(TokenList(LexerTokens(src)))))

\* ----------------------------------------------------------------- actions
\* services.py 87-101: the call, start_time and old_stdout = sys.stdout.
Call(t) ==
  /\ pc[t] \in {"idle", "done"}
  /\ ncalls + Cardinality({u \in Threads : pc[u] = "swap"}) < MaxCalls
  /\ \E call \in Calls :
       /\ code' = [code EXCEPT ![t] = call[1]]
       /\ timeout' = [timeout EXCEPT ![t] = call[2]]
  /\ pc' = [pc EXCEPT ![t] = "swap"]
  /\ old_stdout' = [old_stdout EXCEPT ![t] = sys_stdout]
  /\ captured_output' = [captured_output EXCEPT ![t] = OrigStdout]
  /\ exc' = [exc EXCEPT ![t] = NoExc]
  /\ result' = [result EXCEPT ![t] = None]
  /\ spin' = [spin EXCEPT ![t] = FALSE]
  /\ written' = [written EXCEPT ![t] = <<>>]
  /\ fired' = [fired EXCEPT ![t] = FALSE]
  /\ thrown' = [thrown EXCEPT ![t] = NoExc]
  /\ after' = [after EXCEPT ![t] = OrigStdout]
  /\ alone' = [u \in Threads |->
                 IF u = t THEN \A v \in Threads \ {t} : ~Active(v)
                 ELSE IF Active(u) THEN FALSE ELSE alone[u]]
  /\ overlapped' = (overlapped \/ \E v \in Threads \ {t} : Active(v))
  /\ events' = [events EXCEPT ![t] = <<"start">>]
  /\ UNCHANGED <<globals, stray, outside>>

\* services.py 102: sys.stdout = captured_output = StringIO().
SwapStdout(t) ==
  /\ pc[t] = "swap"
  /\ ncalls' = ncalls + 1
  /\ captured_output' = [captured_output EXCEPT ![t] = ncalls + 1]
  /\ sys_stdout' = ncalls + 1
  /\ pc' = [pc EXCEPT ![t] = "enter"]
  /\ events' = [events EXCEPT ![t] = Append(@, "acquire")]
  /\ UNCHANGED <<platform, contents, alarm, handler, args, outside, old_stdout, exc,
                 result, spin, history>>

\* services.py 105, 39-44: entering time_limit(timeout); when it yields, the
\* with body, which is the pipeline, begins.
EnterTimeLimit(t) ==
  /\ pc[t] = "enter"
  /\ IF platform = "win32"
       THEN /\ pc' = [pc EXCEPT ![t] = "tokenize"]
            /\ UNCHANGED <<alarm, handler, exc, thrown>>
       ELSE IF MayInstallHandler(t)
         THEN /\ handler' = "timeout_handler"
              /\ alarm' = ArmedBy(timeout[t])
              /\ pc' = [pc EXCEPT ![t] = "tokenize"]
              /\ UNCHANGED <<exc, thrown>>
         ELSE /\ exc' = [exc EXCEPT ![t] = SignalValueError]
              /\ thrown' = [thrown EXCEPT ![t] = SignalValueError]
              /\ pc' = [pc EXCEPT ![t] = "except"]
              /\ UNCHANGED <<alarm, handler>>
  /\ events' = [events EXCEPT ![t] =
                  IF pc'[t] = "tokenize" THEN Append(Append(@, "timer"), "pipeline")
                  ELSE Append(@, "timer")]
  /\ UNCHANGED <<platform, sys_stdout, contents, ncalls, args, outside, old_stdout,
                 captured_output, result, spin, written, alone, fired, after,
                 overlapped, stray>>

\* A pipeline stage ends: normally, or by raising e out of the with body.
StageEnds(t, outcome, next) ==
  /\ IF outcome.kind = "ok"
       THEN /\ pc' = [pc EXCEPT ![t] = next]
            /\ UNCHANGED <<exc, thrown>>
       ELSE /\ pc' = [pc EXCEPT ![t] = LeaveBody(TRUE)]
            /\ exc' = [exc EXCEPT ![t] = outcome]
            /\ thrown' = [thrown EXCEPT ![t] = outcome]
  /\ UNCHANGED <<globals, args, outside, old_stdout, captured_output, result, spin,
                 written, alone, fired, after, overlapped, stray>>

\* Variant of Tokenize: the lexer lets every source through.
Tokenize_Lenient(t) ==
  /\ pc[t] = "tokenize"
  /\ StageEnds(t, Ok, "parse")
  /\ UNCHANGED events

\* services.py 107-108.
Tokenize(t) ==
  /\ pc[t] = "tokenize"
  /\ StageEnds(t, Program(code[t]).tokenize, "parse")
  /\ UNCHANGED events

\* services.py 111-112.
Parse(t) ==
  /\ pc[t] = "parse"
  /\ StageEnds(t, Program(code[t]).parse, "run")
  /\ UNCHANGED events

\* Variant of RunWrite: the program runs apart from the call (as under a
\* timer that only abandons it) and goes on writing after a timed-out call
\* has returned.
RunWrite_Detached(t) ==
  /\ \/ pc[t] = "run"
     \/ pc[t] = "done" /\ fired[t]
  /\ Len(written[t]) < Program(code[t]).writes
  /\ LET m == Marker(t, Len(written[t]) + 1) IN
       /\ contents' = [contents EXCEPT ![sys_stdout] = Append(@, m)]
       /\ written' = [written EXCEPT ![t] = Append(@, m)]
  /\ UNCHANGED <<platform, sys_stdout, alarm, handler, ncalls, pc, args, outside,
                 locals, spin, alone, fired, thrown, after, overlapped, stray,
                 events>>

\* services.py 115-116: the running program writes to whatever sys.stdout is.
RunWrite(t) ==
  /\ pc[t] = "run"
  /\ Len(written[t]) < Program(code[t]).writes
  /\ LET m == Marker(t, Len(written[t]) + 1) IN
       /\ contents' = [contents EXCEPT ![sys_stdout] = Append(@, m)]
       /\ written' = [written EXCEPT ![t] = Append(@, m)]
  /\ UNCHANGED <<platform, sys_stdout, alarm, handler, ncalls, pc, args, outside,
                 locals, spin, alone, fired, thrown, after, overlapped, stray,
                 events>>

\* services.py 116: a program that loops goes round once more, writing
\* nothing.
RunLoops(t) ==
  /\ pc[t] = "run"
  /\ Len(written[t]) = Program(code[t]).writes
  /\ Program(code[t]).run.kind = "loop"
  /\ spin' = [spin EXCEPT ![t] = ~@]
  /\ UNCHANGED <<globals, pc, args, outside, locals, history, events>>

\* services.py 116: run returns or raises; a looping program does neither.
RunEnds(t) ==
  /\ pc[t] = "run"
  /\ Len(written[t]) = Program(code[t]).writes
  /\ Program(code[t]).run.kind # "loop"
  /\ StageEnds(t, Program(code[t]).run, "getvalue")
  /\ UNCHANGED events

\* services.py 119-129: the success dict is built and returned.
GetValue(t) ==
  /\ pc[t] = "getvalue"
  /\ result' = [result EXCEPT ![t] = Some(SuccessResult(contents[captured_output[t]]))]
  /\ pc' = [pc EXCEPT ![t] = LeaveBody(FALSE)]
  /\ events' = [events EXCEPT ![t] = Sampled(@)]
  /\ UNCHANGED <<globals, args, outside, old_stdout, captured_output, exc, spin, history>>

\* services.py 45-46: the generator's finally, signal.alarm(0).
ExitTimeLimit(t) ==
  /\ pc[t] = "exit"
  /\ alarm' = Disarmed
  /\ pc' = [pc EXCEPT ![t] = IF exc[t] = NoExc THEN "restore" ELSE "except"]
  /\ UNCHANGED <<platform, sys_stdout, contents, handler, ncalls, args, outside,
                 locals, spin, history, events>>

\* services.py 131-162: the matching except clause builds the failure dict.
Except(t) ==
  /\ pc[t] = "except"
  /\ result' = [result EXCEPT ![t] = ExceptClause(exc[t], timeout[t])]
  /\ exc' = [exc EXCEPT ![t] =
               IF ExceptClause(exc[t], timeout[t]) = None THEN @ ELSE NoExc]
  /\ pc' = [pc EXCEPT ![t] = "restore"]
  /\ events' = [events EXCEPT ![t] = Sampled(@)]
  /\ UNCHANGED <<globals, args, outside, old_stdout, captured_output, spin, history>>

\* services.py 164-166: finally restores sys.stdout; execute returns its
\* dict, or the unhandled exception reaches the caller.
Restore(t) ==
  /\ pc[t] = "restore"
  /\ sys_stdout' = RestoredStdout(t)
  /\ after' = [after EXCEPT ![t] = RestoredStdout(t)]
  /\ pc' = [pc EXCEPT ![t] = IF exc[t] = NoExc THEN "done" ELSE "raised"]
  /\ events' = [events EXCEPT ![t] = Released(@)]
  /\ UNCHANGED <<platform, contents, alarm, handler, ncalls, args, outside, locals,
                 spin, written, alone, fired, thrown, overlapped, stray>>

\* services.py 31-33: SIGALRM is delivered; the handler runs in the main
\* thread and raises TimeoutException at the point the thread has reached.
AlarmFires ==
  /\ alarm = "armed"
  /\ handler = "timeout_handler"
  /\ alarm' = "off"
  /\ IF pc[MainThread] \in TimedRegion
       THEN /\ exc' = [exc EXCEPT ![MainThread] = RaisedOver(@)]
            /\ result' = [result EXCEPT ![MainThread] = None]
            /\ fired' = [fired EXCEPT ![MainThread] = TRUE]
            /\ pc' = [pc EXCEPT ![MainThread] =
                        IF @ = "exit" THEN "except" ELSE "exit"]
            /\ UNCHANGED stray
       ELSE /\ stray' = TRUE
            /\ UNCHANGED <<pc, exc, result, fired>>
  /\ UNCHANGED <<platform, sys_stdout, contents, handler, ncalls, args, outside,
                 old_stdout, captured_output, spin, written, alone, thrown,
                 after, overlapped, events>>

Step(t) ==
  \/ SwapStdout(t) \/ EnterTimeLimit(t) \/ Tokenize(t) \/ Parse(t)
  \/ RunWrite(t) \/ RunLoops(t) \/ RunEnds(t) \/ GetValue(t)
  \/ ExitTimeLimit(t)
  \/ Except(t) \/ Restore(t)

Next ==
  \/ \E t \in Threads : Call(t)
  \/ \E t \in Threads : SwapStdout(t)
  \/ \E t \in Threads : EnterTimeLimit(t)
  \/ \E t \in Threads : Tokenize(t)
  \/ \E t \in Threads : Parse(t)
  \/ \E t \in Threads : RunWrite(t)
  \/ \E t \in Threads : RunLoops(t)
  \/ \E t \in Threads : RunEnds(t)
  \/ \E t \in Threads : GetValue(t)
  \/ \E t \in Threads : ExitTimeLimit(t)
  \/ \E t \in Threads : Except(t)
  \/ \E t \in Threads : Restore(t)
  \/ AlarmFires

Spec == Init /\ [][Next]_vars

\* The scheduler runs every thread that can take a step, and the kernel
\* delivers a pending SIGALRM.
FairSpec == Spec /\ (\A t \in Threads : WF_vars(Step(t))) /\ WF_vars(AlarmFires)

\* ------------------------------------------- calls made one after another
\* The sources validate_syntax is called with: one for each way it ends.
ValidatedSources == {"print", "badlex", "badparse", "lexcrash"}

\* The record of validate_syntax calls after one more call: the call before
\* it and the call itself.
Validated(log, src) ==
  LET call == [code |-> src, ret |-> validate_syntax(src)] IN
    IF log = <<>> THEN <<call>> ELSE <<log[Len(log)], call>>

\* Variant of ValidateSyntaxCall: the pipeline is validated under the timer
\* execute uses, which is left armed.
ValidateSyntaxCall_Timed(src) ==
  /\ validations' = Validated(validations, src)
  /\ handler' = IF platform = "unix" THEN "timeout_handler" ELSE handler
  /\ alarm' = IF platform = "unix" THEN ArmedBy(MinTimeout) ELSE alarm
  /\ UNCHANGED <<platform, sys_stdout, contents, ncalls, pc, args, locals, spin,
                 history, events, response>>

\* services.py 57-84: one call of validate_syntax, in any thread.  It
\* builds a Lexer and a Parser of its own and assigns nothing else.
ValidateSyntaxCall(src) ==
  /\ validations' = Validated(validations, src)
  /\ UNCHANGED <<globals, pc, args, locals, spin, history, events, response>>

\* A call of execute made while no other call is in progress.
SeqCall(t) ==
  /\ \A u \in Threads : ~Active(u)
  /\ Call(t)

\* A call of validate_syntax made while no call of execute is in progress.
SeqValidate(src) ==
  /\ \A u \in Threads : ~Active(u)
  /\ ValidateSyntaxCall(src)

SeqNext ==
  \/ \E t \in Threads : SeqCall(t)
  \/ \E t \in Threads : SwapStdout(t)
  \/ \E t \in Threads : EnterTimeLimit(t)
  \/ \E t \in Threads : Tokenize(t)
  \/ \E t \in Threads : Parse(t)
  \/ \E t \in Threads : RunWrite(t)
  \/ \E t \in Threads : RunLoops(t)
  \/ \E t \in Threads : RunEnds(t)
  \/ \E t \in Threads : GetValue(t)
  \/ \E t \in Threads : ExitTimeLimit(t)
  \/ \E t \in Threads : Except(t)
  \/ \E t \in Threads : Restore(t)
  \/ AlarmFires
  \/ \E src \in ValidatedSources : SeqValidate(src)

\* execute and validate_syntax called one at a time, from either thread.
SeqSpec == Init /\ [][SeqNext]_vars

\* ---------------------------------------------------- the /execute handler
\* models.py 13-16: the fields of CodeRequest.
CodeRequestFields == {"code", "timeout"}
\* app.py 106-110: the number of arguments execute is called with.
ArgsPassed == 3
\* services.py 87: the number of parameters execute has.
ExecuteParams == 2

\* Request bodies that pass the validation of CodeRequest: code is any
\* string, timeout is within ge=1, le=30.
Blank == {"", "   "}
Requests == [code : Blank \cup {"print", "badlex"}, timeout : {MinTimeout}]

\* str.strip() on the codes above.
strip(text) == IF text \in Blank THEN "" ELSE text

\* fastapi.HTTPException, an Exception whose str() is "<status>: <detail>".
HTTPException(status_code, detail) ==
  [cls |-> "HTTPException", status_code |-> status_code,
   str |-> <<ToString(status_code), ": ">> \o detail]

\* Reading an attribute the model does not declare (pydantic BaseModel).
AttributeError(model, name) ==
  [cls |-> "AttributeError",
   str |-> <<"'", model, "' object has no attribute '", name, "'">>]

\* Calling a function with more positional arguments than it has parameters.
TypeError(function, takes, given) ==
  [cls |-> "TypeError",
   str |-> <<function, "() takes ", ToString(takes),
             " positional arguments but ", ToString(given), " were given">>]

\* app.py 96-115: the exception the try body raises, None when it returns
\* the result of execute.
TryBody(request) ==
  IF strip(request.code) = ""
    THEN Some(HTTPException(400, <<"Code cannot be empty">>))
  ELSE IF "input_values" \notin CodeRequestFields
    THEN Some(AttributeError("CodeRequest", "input_values"))
  ELSE IF ArgsPassed > ExecuteParams
    THEN Some(TypeError("PuffingExecutor.execute", ExecuteParams, ArgsPassed))
  ELSE None

\* app.py 86-122: the response to a request.  invoked tells whether
\* executor.execute was called; the except clause takes every Exception the
\* try body raises, the HTTPException of line 100 included.
execute_code(request) ==
  IF TryBody(request) = None
    THEN [request |-> request, status_code |-> 200, detail |-> <<>>,
          invoked |-> TRUE]
    ELSE LET e == CHOOSE x \in TryBody(request) : TRUE IN
           [request |-> request, status_code |-> 500,
            detail |-> <<"Server error: ">> \o e.str, invoked |-> FALSE]

\* One request served by the handler.
HandleExecute(request) ==
  /\ response' = Some(execute_code(request))
  /\ UNCHANGED <<globals, pc, args, locals, spin, history, events, validations>>

ApiNext ==
  \/ \E t \in Threads : SeqCall(t)
  \/ \E t \in Threads : SwapStdout(t)
  \/ \E t \in Threads : EnterTimeLimit(t)
  \/ \E t \in Threads : Tokenize(t)
  \/ \E t \in Threads : Parse(t)
  \/ \E t \in Threads : RunWrite(t)
  \/ \E t \in Threads : RunLoops(t)
  \/ \E t \in Threads : RunEnds(t)
  \/ \E t \in Threads : GetValue(t)
  \/ \E t \in Threads : ExitTimeLimit(t)
  \/ \E t \in Threads : Except(t)
  \/ \E t \in Threads : Restore(t)
  \/ AlarmFires
  \/ \E request \in Requests : HandleExecute(request)

\* The service: requests to /execute, and direct calls of execute made one
\* at a time.
ApiSpec == Init /\ [][ApiNext]_vars

\* ------------------------------------------------------------------ claims
Returned(t) == pc[t] = "done"
Quiet == \A t \in Threads : ~Active(t)
\* A call whose run step never ends by itself.
Looping(t) == pc[t] = "run" /\ Program(code[t]).run.kind = "loop"
             /\ Len(written[t]) = Program(code[t]).writes
\* The text a call's own writes make, as a success result reports it.
OwnOutput(t) == Some(IF written[t] = <<>> THEN Placeholder ELSE written[t])

\* C1: execute never raises to its caller, and whatever the pipeline or the
\* arming of the timer did (normal end, PuffingError, deadline, any other
\* Exception) a call that has been started can always take its next step
\* until it returns a dict with a boolean success flag.
C1_AlwaysReturnsResult ==
  \A t \in Threads :
    /\ pc[t] # "raised"
    /\ Returned(t) => /\ result[t] # None
                      /\ \A r \in result[t] : r.success \in BOOLEAN
    /\ (Active(t) /\ ~Looping(t)) => ENABLED Step(t)
    /\ result[t] # None => pc[t] \in {"exit", "restore", "done"}

\* C1 witness: a worker's call on the SIGALRM branch has returned the failure
\* dict made from the fault raised while arming the timer.
C1_Witness ==
  /\ platform = "unix"
  /\ Returned("worker")
  /\ thrown["worker"] = SignalValueError
  /\ \E r \in result["worker"] : r.success = FALSE

\* C2 (as claimed): a call whose program loops, made with a timeout of at
\* least 1, eventually returns a failure of type TimeoutError, on either
\* platform branch.
C2_LoopTimesOut ==
  \A t \in Threads :
    (Looping(t) /\ timeout[t] >= MinTimeout)
      ~> (Returned(t) /\ \E r \in result[t] : r.error_type = Some("TimeoutError"))

\* C3 (as claimed): the output of every successful result is exactly the text
\* that call's own program wrote, also when calls overlap.
C3_OwnWritesOnly ==
  \A t \in Threads :
    Returned(t) => \A r \in result[t] : r.success => r.output = OwnOutput(t)

\* C4 (as claimed): once every call has returned, sys.stdout is the original
\* stream, whatever the interleaving was.
C4_StdoutRestoredWhenQuiet == Quiet => sys_stdout = OrigStdout

\* C5: a call that overlapped no other leaves sys.stdout the stream it was
\* before the call, on every exit path; and while no two calls have ever
\* overlapped, sys.stdout between calls is the original stream.
C5_RestoredWhenAlone ==
  /\ \A t \in Threads :
       (pc[t] \in {"done", "raised"} /\ alone[t]) => after[t] = old_stdout[t]
  /\ (Quiet /\ ~overlapped) => sys_stdout = OrigStdout

\* C5 witness: the main thread's call ran alone, was timed out, and has
\* returned with sys.stdout back at the stream it found.
C5_Witness ==
  /\ Returned(MainThread) /\ alone[MainThread] /\ fired[MainThread]
  /\ ~overlapped /\ Quiet
  /\ ncalls = 2
  /\ sys_stdout = old_stdout[MainThread]

\* C6: every returned dict fills one branch: success with output and no
\* error, error_type or traceback; failure with no output and with error and
\* error_type; execution_time in both.
C6_OneBranch ==
  \A t \in Threads :
    Returned(t) =>
      /\ result[t] # None
      /\ \A r \in result[t] :
           /\ r.execution_time # None
           /\ r.success => /\ r.output # None
                           /\ r.error = None
                           /\ r.error_type = None
                           /\ r.traceback = None
           /\ ~r.success => /\ r.output = None
                            /\ r.error # None
                            /\ r.error_type # None

\* C6 witness: one call has returned a success with its output and the
\* other a failure.
C6_Witness ==
  /\ Returned(MainThread) /\ Returned("worker")
  /\ \E r \in result[MainThread] : r.success /\ r.output = Some(written[MainThread])
  /\ \E r \in result["worker"] : ~r.success /\ r.error # None

\* C7: a call that overlapped no other and completed normally returns the
\* text its program wrote, in write order, or the placeholder when it wrote
\* nothing; and no success result has the empty text as output.
C7_OutputIsOwnWrites ==
  \A t \in Threads :
    Returned(t) =>
      \A r \in result[t] :
        r.success => /\ r.output # Some(<<>>)
                     /\ alone[t] => r.output = OwnOutput(t)

\* C7 witness: a call that ran alone wrote MaxWrites chunks and returned
\* them in order; another, alone too, wrote nothing and returned the
\* placeholder.
C7_Witness ==
  /\ Returned(MainThread) /\ alone[MainThread]
  /\ Len(written[MainThread]) = MaxWrites
  /\ result[MainThread] = Some(SuccessResult(written[MainThread]))
  /\ written[MainThread][1] = Marker(MainThread, 1)
  /\ Returned("worker") /\ alone["worker"]
  /\ written["worker"] = <<>>
  /\ \E r \in result["worker"] : r.output = Some(Placeholder)

\* C8: when a pipeline stage raised a PuffingError and the deadline did not
\* fire, the call returns failure with the error's class name as
\* error_type, the error's own message as error, and a traceback.
C8_LanguageErrorReported ==
  \A t \in Threads :
    (Returned(t) /\ thrown[t].kind = "puffing" /\ ~fired[t]) =>
      \A r \in result[t] :
        /\ ~r.success
        /\ r.error_type = Some(thrown[t].cls)
        /\ r.error = Some(<<thrown[t].msg>>)
        /\ r.traceback # None

\* C8 witness: run raised a PuffingError after writing, and the call
\* returned.
C8_Witness ==
  /\ Returned(MainThread)
  /\ code[MainThread] = "badrun"
  /\ thrown[MainThread] = Program("badrun").run
  /\ ~fired[MainThread]

\* Unexpected(t): the call returned after a fault that is neither a timeout
\* nor a PuffingError.
Unexpected(t) == Returned(t) /\ thrown[t].kind = "exception" /\ ~fired[t]

\* PipelineFault(t): the fault came from tokenize, parse or run.
PipelineFault(t) == Unexpected(t) /\ thrown[t] # SignalValueError

\* C9 (as claimed): every unexpected fault of the pipeline is reported with
\* one and the same error_type, whatever its class, and with the stringified
\* fault as error.
C9_GenericKind ==
  \A t, u \in Threads :
    (PipelineFault(t) /\ PipelineFault(u)) =>
      \A r \in result[t], q \in result[u] :
        /\ r.error_type = q.error_type
        /\ r.error = Some(<<thrown[t].msg>>)

\* C9 (amended): an unexpected fault (of the pipeline, or of arming the
\* timer) is reported as a failure whose
\* error_type is the fault's own class name and whose error is
\* "Unexpected error: " followed by the stringified fault, with a traceback.
C9_FaultClassReported ==
  \A t \in Threads :
    Unexpected(t) =>
      /\ result[t] # None
      /\ \A r \in result[t] :
           /\ ~r.success
           /\ r.error_type = Some(thrown[t].cls)
           /\ r.error = Some(<<"Unexpected error: ", thrown[t].msg>>)
           /\ r.traceback # None

\* C9 witness: two calls have returned after unexpected faults of different
\* classes, one raised by run and one by tokenize.
C9_Witness ==
  /\ PipelineFault(MainThread) /\ PipelineFault("worker")
  /\ thrown[MainThread] = Program("crash").run
  /\ thrown["worker"] = Program("lexcrash").tokenize
  /\ thrown[MainThread].cls # thrown["worker"].cls

\* C10 (as claimed): a call made with timeout <= 0 is rejected: it never
\* enters the tokenize -> parse -> run pipeline.
C10_NonPositiveTimeoutRejected ==
  \A t \in Threads :
    (Active(t) /\ timeout[t] <= 0) =>
      pc[t] \notin {"tokenize", "parse", "run", "getvalue"}

\* TimedOut(t): the call's result is the timeout failure.
TimedOut(t) == \E r \in result[t] : r.error_type = Some("TimeoutError")

C16_AbandonedProgramStopped ==
  [][\A t \in Threads :
       (Returned(t) /\ TimedOut(t) /\ pc'[t] = "done") =>
         /\ written'[t] = written[t]
         /\ spin'[t] = spin[t]]_vars

\* C16 witness: a looping program that had not yet written was timed out;
\* its call has returned and the other thread has since started a call.
C16_Witness ==
  /\ Returned(MainThread) /\ TimedOut(MainThread)
  /\ code[MainThread] = "loop"
  /\ Len(written[MainThread]) < Program("loop").writes
  /\ Active("worker")

\* C17 (as claimed): in a returned call the events are in the order start
\* time, sink acquired, timer started, pipeline, sink released, elapsed time
\* sampled: the sample comes after the release.
C17_SampledAfterRelease ==
  \A t \in Threads :
    Returned(t) =>
      LET log == events[t] IN
        /\ Len(log) >= 5
        /\ log[1] = "start" /\ log[2] = "acquire" /\ log[3] = "timer"
        /\ log[Len(log) - 1] = "release"
        /\ log[Len(log)] = "sample"

\* C17 (amended): in a returned call the events are in the order start time,
\* sink acquired, timer started, pipeline (when the timer could be started),
\* elapsed time sampled, sink released: the elapsed time in the result is
\* sampled before sys.stdout is put back, on every exit path, and nothing is
\* sampled after.
C17_SampledBeforeRelease ==
  \A t \in Threads :
    Returned(t) =>
      LET log == events[t] IN
        /\ Len(log) >= 5
        /\ log[1] = "start" /\ log[2] = "acquire" /\ log[3] = "timer"
        /\ log[Len(log) - 1] = "sample"
        /\ log[Len(log)] = "release"
        /\ \A i \in 1..(Len(log) - 1) : log[i] # "release"
        /\ \A i \in 4..(Len(log) - 2) : log[i] \in {"pipeline", "sample"}
        /\ \A i \in 5..Len(log) : log[i] # "pipeline"

\* C17 witness: a call whose pipeline ran to its end has returned a success
\* with the six events in the code's order.
C17_Witness ==
  /\ Returned(MainThread)
  /\ \E r \in result[MainThread] : r.success
  /\ events[MainThread] = <<"start", "acquire", "timer", "pipeline", "sample", "release">>

\* OffMainOnUnix(t): a call made on the SIGALRM branch from a thread that is
\* not the main thread.
OffMainOnUnix(t) == platform = "unix" /\ t # MainThread

\* C20: on the SIGALRM branch a call from a thread other than the main
\* thread never enters tokenize, parse or run and writes nothing; it returns
\* a failure whose error starts with "Unexpected error: " and whose output is
\* absent, after putting sys.stdout back to the stream it had saved.
C20_OffMainThreadFails ==
  \A t \in Threads :
    OffMainOnUnix(t) =>
      /\ pc[t] \notin {"tokenize", "parse", "run", "getvalue", "exit", "raised"}
      /\ written[t] = <<>>
      /\ Returned(t) =>
           /\ result[t] # None
           /\ \A r \in result[t] :
                /\ ~r.success
                /\ r.output = None
                /\ r.error # None
                /\ \A m \in r.error : m[1] = "Unexpected error: "
           /\ after[t] = old_stdout[t]

\* C20 witness: the worker's call of a printing program on the SIGALRM
\* branch has returned its failure while the main thread's call is running.
C20_Witness ==
  /\ OffMainOnUnix("worker") /\ Returned("worker")
  /\ code["worker"] = "print"
  /\ \E r \in result["worker"] : r.error_type = Some("ValueError")
  /\ pc[MainThread] = "run"

\* The exception that ends tokenize-then-parse on src, or Ok.
PipelineStop(src) ==
  IF Program(src).tokenize.kind # "ok" THEN Program(src).tokenize
  ELSE Program(src).parse

\* C11: validate_syntax never raises and returns (True, None, tokens) with
\* one {type, value} pair per lexer token in the lexer's order when tokenize
\* and parse succeed, (False, the error's message, None) on a PuffingError
\* and (False, "Unexpected error: " + message, None) on any other fault; so
\* error is present iff valid is false and tokens iff valid is true.
C11_ValidationTriple ==
  \A i \in 1..Len(validations) :
    LET v == validations[i]
        e == PipelineStop(v.code)
        lexed == LexerTokens(v.code)
    IN /\ v.ret # None
       /\ \A r \in v.ret :
            /\ e.kind = "ok" =>
                 /\ r.valid /\ r.error = None
                 /\ \E toks \in r.tokens :
                      /\ Len(toks) = Len(lexed)
                      /\ \A k \in 1..Len(lexed) :
                           /\ DOMAIN toks[k] = {"type", "value"}
                           /\ toks[k].type = Str(lexed[k].type)
                           /\ toks[k].value = lexed[k].value
            /\ e.kind = "puffing" =>
                 ~r.valid /\ r.error = Some(<<e.msg>>) /\ r.tokens = None
            /\ e.kind = "exception" =>
                 /\ ~r.valid /\ r.tokens = None
                 /\ r.error = Some(<<"Unexpected error: ", e.msg>>)
            /\ (r.error # None) <=> ~r.valid
            /\ (r.tokens # None) <=> r.valid

\* A source with several tokens has been validated, and after it one on
\* which the lexer fails with something that is no PuffingError.
C11_Witness ==
  /\ Len(validations) > 1
  /\ validations[1].code = "print"
  /\ \E r \in validations[1].ret : r.valid /\ r.tokens # None
  /\ validations[Len(validations)].code = "lexcrash"
  /\ \E r \in validations[Len(validations)].ret : ~r.valid

InvalidByLanguage(src) ==
  \E r \in validate_syntax(src) :
    ~r.valid /\ \E m \in r.error : m[1] # "Unexpected error: "

\* A call of execute, with a timeout a request may carry, on such a source.
OnInvalidSource(t) ==
  pc[t] # "idle" /\ timeout[t] >= MinTimeout /\ InvalidByLanguage(code[t])

C14_HandlerInvokesExecute ==
  \A r \in response :
    (strip(r.request.code) # "" /\ r.request.timeout >= MinTimeout)
      => r.invoked /\ r.status_code = 200

\* C18: a request whose code is empty or only whitespace is answered with
\* 400 and detail "Code cannot be empty", and execute is not called.
C18_EmptyCodeRejected ==
  \A r \in response :
    strip(r.request.code) = ""
      => /\ r.status_code = 400
         /\ r.detail = <<"Code cannot be empty">>
         /\ ~r.invoked

\* C19: with calls made one at a time, an alarm is pending only while the
\* main thread's call is inside its timed region (so every call has
\* disarmed it before it returns, however it leaves the with body, and no
\* call starts under another call's deadline), and the handler never runs
\* outside a timed region.
C19_AlarmDisarmedOnExit ==
  /\ alarm = "armed" => pc[MainThread] \in TimedRegion
  /\ \A t \in Threads : fired[t] => (t = MainThread /\ timeout[t] > 0)
  /\ ~stray

\* After an earlier call and a validation, a main-thread call that armed
\* the alarm has left the with body by an exception and returned before its
\* deadline, and no alarm is pending.
C19_Witness ==
  /\ platform = "unix" /\ ncalls > 1 /\ validations # <<>>
  /\ Returned(MainThread) /\ timeout[MainThread] >= MinTimeout
  /\ thrown[MainThread] # NoExc /\ ~fired[MainThread]
  /\ handler = "timeout_handler" /\ alarm = "off"

====
